---------------------------- MODULE Spec2Model ----------------------------
(***************************************************************************)
(* Model of src/tts_google.py: SSML-aware chunking of a text document,     *)
(* sequential synthesis of the chunks, and assembly of the audio           *)
(* fragments (WAV concatenation or ffmpeg stream concatenation).           *)
(*                                                                         *)
(* A Python str is a sequence of symbols.  A symbol is a one-character     *)
(* string, the symbol Bulk (a run of BulkLen letters kept as one symbol,   *)
(* so that documents near the 4700/5000 byte limits stay short), or, in    *)
(* the output of auto_text_to_ssml, a whole markup tag.                    *)
(***************************************************************************)
EXTENDS Integers, Sequences, FiniteSets, TLC

VARIABLES
    USE_SSML, SSML_MODE, PROFESSOR_PROSODY,      \* module-level configuration
    MAX_SSML_BYTES, MAX_TEXT_BYTES, AUDIO_ENCODING,
    pc,            \* position of main()
    raw,           \* main.raw: the stripped input text
    error,         \* the exception that ended the run, or NoError
    paragraphs,    \* split_text_sentence_aware: paragraphs still to visit
    current,       \* split_text_sentence_aware.current
    sentences,     \* sentences of the paragraph being split, still to visit
    sent_buf,      \* split_text_sentence_aware.sent_buf
    words,         \* words of the sentence being split, still to visit
    wbuf,          \* split_text_sentence_aware.wbuf
    chunks,        \* split_text_sentence_aware.chunks / main.chunks
    i,             \* main: number of chunks already synthesized
    calls,         \* payloads received by client.synthesize_speech, in order
    combined_pcm,  \* main.combined_pcm
    part_files,    \* main.part_files
    td,            \* main's TemporaryDirectory: "none", "open" or "removed"
    td_files,      \* files written into main's temporary directory
    concat_td,     \* ffmpeg_concat_audio's TemporaryDirectory
    ffmpeg_runs,   \* manifests handed to ffmpeg, one per invocation
    wav            \* the WAV file written by write_wav, or NoWav

cfgvars == <<USE_SSML, SSML_MODE, PROFESSOR_PROSODY, MAX_SSML_BYTES,
             MAX_TEXT_BYTES, AUDIO_ENCODING>>
segvars == <<paragraphs, current, sentences, sent_buf, words, wbuf, chunks>>
runvars == <<i, calls, combined_pcm, part_files, td, td_files, concat_td,
             ffmpeg_runs, wav>>
vars == <<cfgvars, pc, raw, error, segvars, runvars>>

-----------------------------------------------------------------------------
(* Symbols *)

Bulk == "L"
\* Number of letters the symbol Bulk stands for.
BulkLen == 2400

\* U+2014, three bytes in UTF-8
EmDash == "EM DASH"

SP == " "
NL == "\n"
CR == "\r"
TAB == "\t"

\* str.isspace / regex \s, on the symbols of the model
IsSpace(c) == c \in {SP, NL, CR, TAB}

\* len(s.encode("utf-8"))
RECURSIVE utf8_len(_)
utf8_len(s) ==
    IF s = <<>> THEN 0
    ELSE (IF Head(s) = Bulk THEN BulkLen
          ELSE IF Head(s) = EmDash THEN 3
          ELSE Len(Head(s))) + utf8_len(Tail(s))

RECURSIVE LStrip(_)
LStrip(s) == IF s # <<>> /\ IsSpace(Head(s)) THEN LStrip(Tail(s)) ELSE s

RECURSIVE RStrip(_)
RStrip(s) ==
    IF s # <<>> /\ IsSpace(s[Len(s)]) THEN RStrip(SubSeq(s, 1, Len(s) - 1)) ELSE s

\* str.strip()
Strip(s) == RStrip(LStrip(s))

\* text.replace("\r\n", "\n").replace("\r", "\n")
RECURSIVE NormalizeNewlines(_)
NormalizeNewlines(s) ==
    IF s = <<>> THEN <<>>
    ELSE IF Head(s) = CR
         THEN IF Len(s) >= 2 /\ s[2] = NL
              THEN <<NL>> \o NormalizeNewlines(Tail(Tail(s)))
              ELSE <<NL>> \o NormalizeNewlines(Tail(s))
         ELSE <<Head(s)>> \o NormalizeNewlines(Tail(s))

\* txt.split("\n\n"): the pieces between non-overlapping "\n\n", left to right
RECURSIVE SplitOnBlankLine(_, _)
SplitOnBlankLine(s, piece) ==
    IF s = <<>> THEN <<piece>>
    ELSE IF Len(s) >= 2 /\ s[1] = NL /\ s[2] = NL
         THEN <<piece>> \o SplitOnBlankLine(Tail(Tail(s)), <<>>)
         ELSE SplitOnBlankLine(Tail(s), Append(piece, Head(s)))

\* [x.strip() for x in pieces if x.strip()]
RECURSIVE StripNonEmpty(_)
StripNonEmpty(pieces) ==
    IF pieces = <<>> THEN <<>>
    ELSE IF Strip(Head(pieces)) = <<>> THEN StripNonEmpty(Tail(pieces))
         ELSE <<Strip(Head(pieces))>> \o StripNonEmpty(Tail(pieces))

\* [p.strip() for p in txt.split("\n\n") if p.strip()]
SplitParagraphs(txt) == StripNonEmpty(SplitOnBlankLine(txt, <<>>))

IsTerminal(c) == c \in {".", "!", "?"}

\* re.split(r"(?<=[.!?])\s+", para): cut at every maximal whitespace run
\* that follows a sentence-terminal character
RECURSIVE SplitOnSentenceEnd(_, _)
SplitOnSentenceEnd(s, piece) ==
    IF s = <<>> THEN <<piece>>
    ELSE IF IsSpace(Head(s)) /\ piece # <<>> /\ IsTerminal(piece[Len(piece)])
         THEN <<piece>> \o SplitOnSentenceEnd(LStrip(s), <<>>)
         ELSE SplitOnSentenceEnd(Tail(s), Append(piece, Head(s)))

\* [s.strip() for s in sentence_split_re.split(para) if s.strip()]
SplitSentences(para) == StripNonEmpty(SplitOnSentenceEnd(para, <<>>))

\* s.split(): the maximal runs of non-whitespace
RECURSIVE SplitWords(_, _)
SplitWords(s, piece) ==
    IF s = <<>> THEN (IF piece = <<>> THEN <<>> ELSE <<piece>>)
    ELSE IF IsSpace(Head(s))
         THEN (IF piece = <<>> THEN <<>> ELSE <<piece>>)
              \o SplitWords(Tail(s), <<>>)
         ELSE SplitWords(Tail(s), Append(piece, Head(s)))


-----------------------------------------------------------------------------
(* auto_text_to_ssml *)

\* html.escape(p), one character at a time
EscapeChar(c) ==
    CASE c = "&"  -> <<"&", "a", "m", "p", ";">>
      [] c = "<"  -> <<"&", "l", "t", ";">>
      [] c = ">"  -> <<"&", "g", "t", ";">>
      [] c = "\"" -> <<"&", "q", "u", "o", "t", ";">>
      [] c = "'"  -> <<"&", "#", "x", "2", "7", ";">>
      [] OTHER    -> <<c>>

RECURSIVE Escape(_)
Escape(s) == IF s = <<>> THEN <<>> ELSE EscapeChar(Head(s)) \o Escape(Tail(s))

\* re.sub(r"([punct])(\s+)", r"\1 <brk> ", p): after every character of
\* punct that is followed by whitespace, the whitespace run is replaced by
\* " <brk> "
RECURSIVE SubBreak(_, _, _)
SubBreak(s, punct, brk) ==
    IF s = <<>> THEN <<>>
    ELSE IF Head(s) \in punct /\ Len(s) >= 2 /\ IsSpace(s[2])
         THEN <<Head(s), SP, brk, SP>> \o SubBreak(LStrip(Tail(s)), punct, brk)
         ELSE <<Head(s)>> \o SubBreak(Tail(s), punct, brk)

\* re.sub(r"(—|--)(\s+)", r"\1 <brk> ", p)
RECURSIVE SubDashBreak(_, _)
SubDashBreak(s, brk) ==
    IF s = <<>> THEN <<>>
    ELSE IF Head(s) = EmDash /\ Len(s) >= 2 /\ IsSpace(s[2])
         THEN <<EmDash, SP, brk, SP>> \o SubDashBreak(LStrip(Tail(s)), brk)
    ELSE IF Len(s) >= 3 /\ s[1] = "-" /\ s[2] = "-" /\ IsSpace(s[3])
         THEN <<"-", "-", SP, brk, SP>> \o SubDashBreak(LStrip(Tail(Tail(s))), brk)
         ELSE <<Head(s)>> \o SubDashBreak(Tail(s), brk)

\* the body of the loop over paragraphs: escape, the four substitutions in
\* their order, and the <p> wrapper (BREAK_MS = 220)
SsmlParagraph(p) ==
    LET e  == Escape(p)
        s1 == SubBreak(e, {".", "!", "?"}, "<break time='220ms'/>")
        s2 == SubBreak(s1, {","}, "<break time='120ms'/>")
        s3 == SubBreak(s2, {":", ";"}, "<break time='220ms'/>")
        s4 == SubDashBreak(s3, "<break time='180ms'/>")
    IN  IF PROFESSOR_PROSODY
        THEN <<"<p><prosody rate='88%' pitch='-1st'>">> \o s4 \o <<"</prosody></p>">>
        ELSE <<"<p>">> \o s4 \o <<"</p>">>

\* joiner.join(ssml_paras) with joiner = <break time='420ms'/>
RECURSIVE JoinParas(_)
JoinParas(ps) ==
    IF ps = <<>> THEN <<>>
    ELSE IF Len(ps) = 1 THEN SsmlParagraph(Head(ps))
    ELSE SsmlParagraph(Head(ps)) \o <<"<break time='420ms'/>">> \o JoinParas(Tail(ps))

auto_text_to_ssml(text) ==
    <<"<speak>">>
    \o JoinParas(SplitParagraphs(Strip(NormalizeNewlines(text))))
    \o <<"</speak>">>

ssml_bytes_for_text_chunk(text_chunk) == utf8_len(auto_text_to_ssml(text_chunk))

\* build_synthesis_input(raw): the field of SynthesisInput and its value
build_synthesis_input(text) ==
    IF ~USE_SSML THEN [field |-> "text", value |-> text]
    ELSE IF SSML_MODE = "raw" THEN [field |-> "ssml", value |-> text]
    ELSE [field |-> "ssml", value |-> auto_text_to_ssml(text)]

-----------------------------------------------------------------------------
(* split_text_sentence_aware: the helpers *)

fits(candidate_text) ==
    IF USE_SSML /\ SSML_MODE = "auto"
    THEN ssml_bytes_for_text_chunk(candidate_text) <= MAX_SSML_BYTES
    ELSE utf8_len(candidate_text) <= MAX_TEXT_BYTES

\* cur + ("\n\n" if cur else "") + addition, stripped
ParaCandidate(cur, addition) ==
    Strip(cur \o (IF cur # <<>> THEN <<NL, NL>> ELSE <<>>) \o addition)

\* (buf + (" " if buf else "") + unit).strip()
SpaceCandidate(buf, unit) ==
    Strip(buf \o (IF buf # <<>> THEN <<SP>> ELSE <<>>) \o unit)

\* try_add as it would be if a paragraph were never joined to the accumulator
try_add_alone(cur, addition) == cur = <<>> /\ fits(addition)

try_add(cur, addition) ==
    LET candidate == ParaCandidate(cur, addition)
    IN  IF candidate = <<>> THEN TRUE ELSE fits(candidate)

\* chunks after flush()
flush(chs, cur) == IF Strip(cur) # <<>> THEN Append(chs, Strip(cur)) ELSE chs

\* the append as it would be if the buffer were dropped instead of closed
AppendIfAny_lost(chs, buf) == chs

\* chunks after "if buf: chunks.append(buf)"
AppendIfAny(chs, buf) == IF buf # <<>> THEN Append(chs, buf) ELSE chs

\* the verification loop as it would be if it never rejected a chunk
ExceedsBudget_never(c) == FALSE

\* the test of the final verification loop on one chunk
ExceedsBudget(c) ==
    IF USE_SSML /\ SSML_MODE = "auto"
    THEN ssml_bytes_for_text_chunk(c) > MAX_SSML_BYTES
    ELSE utf8_len(c) > MAX_TEXT_BYTES

-----------------------------------------------------------------------------
(* Inputs *)

\* Largest number of words in a document.
MaxWords == 3
\* Largest number of bytes in one synthesized fragment.
MaxFragBytes == 2

Word == { <<"a">>, <<"a", ".">>, <<"&", ",">>, <<Bulk>>, <<Bulk, ".">> }
Separator == { <<SP>>, <<CR, NL>>, <<NL, NL>> }

RECURSIVE DocsOfWords(_, _, _)
DocsOfWords(n, W, S) ==
    IF n = 1 THEN W
    ELSE { d \o sep \o w : d \in DocsOfWords(n - 1, W, S), sep \in S, w \in W }

\* What read_text can return: the stripped content of the input file.
\* Document is the set tried on split_text_sentence_aware, RunDocument the
\* smaller set tried on whole runs of main.
Document ==
    {<<>>} \cup UNION { DocsOfWords(n, Word, Separator) : n \in 1..MaxWords }
RunDocument ==
    {<<>>} \cup UNION { DocsOfWords(n, { <<"a">>, <<"a", ".">>, <<Bulk>> },
                                    { <<SP>>, <<NL, NL>> }) : n \in 1..MaxWords }

\* the default of MAX_SSML_BYTES and of MAX_TEXT_BYTES
MAX_BYTES_DEFAULT == 4700

Plain(b) == [use_ssml |-> FALSE, mode |-> "auto", prosody |-> FALSE,
             max_ssml |-> MAX_BYTES_DEFAULT, max_text |-> b]
Auto(b, pr) == [use_ssml |-> TRUE, mode |-> "auto", prosody |-> pr,
                max_ssml |-> b, max_text |-> MAX_BYTES_DEFAULT]
RawMode(b) == [use_ssml |-> TRUE, mode |-> "raw", prosody |-> FALSE,
               max_ssml |-> MAX_BYTES_DEFAULT, max_text |-> b]
Setting == { Plain(3), Plain(MAX_BYTES_DEFAULT),
             Auto(50, FALSE), Auto(MAX_BYTES_DEFAULT, FALSE),
             Auto(MAX_BYTES_DEFAULT, TRUE),
             RawMode(3), RawMode(MAX_BYTES_DEFAULT) }

\* What synthesize_speech can return: any bytes; the byte values tell the
\* fragments apart.
Fragment == { [k \in 1..n |-> n] : n \in 1..MaxFragBytes }

\* What ffmpeg can write to stderr when it fails.
Diagnostic == { "Invalid data found", "No such file" }

NoError == [kind |-> "none", chunk |-> 0, detail |-> ""]
NoWav == [written |-> FALSE]

Compressed == AUDIO_ENCODING \in {"MP3", "OGG_OPUS"}

InitWith(docs, encodings) ==
    /\ \E c \in Setting :
         /\ USE_SSML = c.use_ssml
         /\ SSML_MODE = c.mode
         /\ PROFESSOR_PROSODY = c.prosody
         /\ MAX_SSML_BYTES = c.max_ssml
         /\ MAX_TEXT_BYTES = c.max_text
    /\ AUDIO_ENCODING \in encodings
    /\ raw \in docs
    /\ pc = "main"
    /\ error = NoError
    /\ paragraphs = <<>> /\ current = <<>>
    /\ sentences = <<>> /\ sent_buf = <<>>
    /\ words = <<>> /\ wbuf = <<>>
    /\ chunks = <<>>
    /\ i = 0 /\ calls = <<>> /\ combined_pcm = <<>> /\ part_files = <<>>
    /\ td = "none" /\ td_files = <<>> /\ concat_td = "none"
    /\ ffmpeg_runs = <<>> /\ wav = NoWav

Init == InitWith(RunDocument, {"LINEAR16", "MP3", "OGG_OPUS"})

\* the start of the runs that exercise split_text_sentence_aware
InitSplit == InitWith(Document, {"LINEAR16"})

-----------------------------------------------------------------------------
(* main, up to the call of split_text_sentence_aware *)

\* the fixed ceiling of the raw-SSML check
RAW_SSML_LIMIT == 5000

RawTooLarge == USE_SSML /\ SSML_MODE = "raw" /\ utf8_len(raw) > RAW_SSML_LIMIT

\* if not raw: raise ValueError("Input text is empty.")
MainEmptyInput ==
    /\ pc = "main" /\ raw = <<>>
    /\ pc' = "failed"
    /\ error' = [kind |-> "ValueError: Input text is empty", chunk |-> 0, detail |-> ""]
    /\ UNCHANGED <<cfgvars, raw, segvars, runvars>>

\* the raw-SSML size check raises
MainRawTooLarge ==
    /\ pc = "main" /\ raw # <<>> /\ RawTooLarge
    /\ pc' = "failed"
    /\ error' = [kind |-> "ValueError: SSML over limit", chunk |-> 0, detail |-> ""]
    /\ UNCHANGED <<cfgvars, raw, segvars, runvars>>

\* main reaches split_text_sentence_aware(raw), which normalizes the text
\* and splits it into paragraphs
MainCallSplit ==
    /\ pc = "main" /\ raw # <<>> /\ ~RawTooLarge
    /\ paragraphs' = SplitParagraphs(Strip(NormalizeNewlines(raw)))
    /\ current' = <<>> /\ chunks' = <<>>
    /\ pc' = "para_loop"
    /\ UNCHANGED <<cfgvars, raw, error, sentences, sent_buf, words, wbuf, runvars>>

-----------------------------------------------------------------------------
(* split_text_sentence_aware: one action per loop iteration *)

\* for para in paragraphs: the paragraph fits with current
ParaAppend ==
    /\ pc = "para_loop" /\ paragraphs # <<>>
    /\ try_add(current, Head(paragraphs))
    /\ current' = ParaCandidate(current, Head(paragraphs))
    /\ paragraphs' = Tail(paragraphs)
    /\ UNCHANGED <<cfgvars, pc, raw, error, sentences, sent_buf, words, wbuf,
                   chunks, runvars>>

\* it does not: flush(); the paragraph alone fits and starts a new chunk
ParaFlushKeep ==
    /\ pc = "para_loop" /\ paragraphs # <<>>
    /\ ~try_add(current, Head(paragraphs))
    /\ fits(Head(paragraphs))
    /\ chunks' = flush(chunks, current)
    /\ current' = Head(paragraphs)
    /\ paragraphs' = Tail(paragraphs)
    /\ UNCHANGED <<cfgvars, pc, raw, error, sentences, sent_buf, words, wbuf,
                   runvars>>

\* it does not, even alone: flush(); the paragraph is split into sentences
ParaFlushSplit ==
    /\ pc = "para_loop" /\ paragraphs # <<>>
    /\ ~try_add(current, Head(paragraphs))
    /\ ~fits(Head(paragraphs))
    /\ chunks' = flush(chunks, current)
    /\ current' = <<>>
    /\ sentences' = SplitSentences(Head(paragraphs))
    /\ sent_buf' = <<>>
    /\ paragraphs' = Tail(paragraphs)
    /\ pc' = "sent_loop"
    /\ UNCHANGED <<cfgvars, raw, error, words, wbuf, runvars>>

\* for s in sentences: the sentence fits with sent_buf
SentAppend ==
    /\ pc = "sent_loop" /\ sentences # <<>>
    /\ fits(SpaceCandidate(sent_buf, Head(sentences)))
    /\ sent_buf' = SpaceCandidate(sent_buf, Head(sentences))
    /\ sentences' = Tail(sentences)
    /\ UNCHANGED <<cfgvars, pc, raw, error, paragraphs, current, words, wbuf,
                   chunks, runvars>>

\* it does not: sent_buf is closed; the sentence alone fits
SentFlushKeep ==
    /\ pc = "sent_loop" /\ sentences # <<>>
    /\ ~fits(SpaceCandidate(sent_buf, Head(sentences)))
    /\ fits(Head(sentences))
    /\ chunks' = AppendIfAny(chunks, sent_buf)
    /\ sent_buf' = Head(sentences)
    /\ sentences' = Tail(sentences)
    /\ UNCHANGED <<cfgvars, pc, raw, error, paragraphs, current, words, wbuf,
                   runvars>>

\* it does not, even alone: sent_buf is closed; the sentence is split
\* into words
SentFlushSplit ==
    /\ pc = "sent_loop" /\ sentences # <<>>
    /\ ~fits(SpaceCandidate(sent_buf, Head(sentences)))
    /\ ~fits(Head(sentences))
    /\ chunks' = AppendIfAny(chunks, sent_buf)
    /\ sent_buf' = <<>>
    /\ words' = SplitWords(Head(sentences), <<>>)
    /\ wbuf' = <<>>
    /\ sentences' = Tail(sentences)
    /\ pc' = "word_loop"
    /\ UNCHANGED <<cfgvars, raw, error, paragraphs, current, runvars>>

\* for w in words: the word fits with wbuf
WordAppend ==
    /\ pc = "word_loop" /\ words # <<>>
    /\ fits(SpaceCandidate(wbuf, Head(words)))
    /\ wbuf' = SpaceCandidate(wbuf, Head(words))
    /\ words' = Tail(words)
    /\ UNCHANGED <<cfgvars, pc, raw, error, paragraphs, current, sentences,
                   sent_buf, chunks, runvars>>

\* it does not: wbuf is closed and the word starts the next one
WordFlush ==
    /\ pc = "word_loop" /\ words # <<>>
    /\ ~fits(SpaceCandidate(wbuf, Head(words)))
    /\ chunks' = AppendIfAny(chunks, wbuf)
    /\ wbuf' = Head(words)
    /\ words' = Tail(words)
    /\ UNCHANGED <<cfgvars, pc, raw, error, paragraphs, current, sentences,
                   sent_buf, runvars>>

\* after the word loop: if wbuf: chunks.append(wbuf)
WordLoopEnd ==
    /\ pc = "word_loop" /\ words = <<>>
    /\ chunks' = AppendIfAny(chunks, wbuf)
    /\ pc' = "sent_loop"
    /\ UNCHANGED <<cfgvars, raw, error, paragraphs, current, sentences,
                   sent_buf, words, wbuf, runvars>>

\* after the sentence loop: if sent_buf: chunks.append(sent_buf)
SentLoopEnd ==
    /\ pc = "sent_loop" /\ sentences = <<>>
    /\ chunks' = AppendIfAny(chunks, sent_buf)
    /\ pc' = "para_loop"
    /\ UNCHANGED <<cfgvars, raw, error, paragraphs, current, sentences,
                   sent_buf, words, wbuf, runvars>>

\* the chunk list after the final flush()
FinalChunks == flush(chunks, current)

\* the chunks the verification loop rejects
Rejected(chs) == { k \in 1..Len(chs) : ExceedsBudget(chs[k]) }

Min(S) == CHOOSE k \in S : \A m \in S : k <= m

\* end of the paragraph loop: flush(), and the verification loop raises on
\* the first chunk over the budget
SplitRaiseInternal ==
    /\ pc = "para_loop" /\ paragraphs = <<>>
    /\ Rejected(FinalChunks) # {}
    /\ chunks' = FinalChunks
    /\ current' = <<>>
    /\ pc' = "failed"
    /\ error' = [kind |-> "RuntimeError: Internal error: chunk exceeds budget",
                 chunk |-> Min(Rejected(FinalChunks)), detail |-> ""]
    /\ UNCHANGED <<cfgvars, raw, paragraphs, sentences, sent_buf, words, wbuf,
                   runvars>>

\* a directory removed by hand at the end of the block only: an exception
\* leaves it behind
ExitTempDir_leak(dir, raised) == IF raised THEN dir ELSE "removed"

\* TemporaryDirectory.__exit__: the directory is removed however the with
\* block is left
ExitTempDir(dir, raised) == "removed"

SAMPLE_RATE_HZ == 24000

\* end of the paragraph loop: flush(), the verification loop passes and the
\* chunks are returned to main, which enters the branch of its encoding
SplitReturn ==
    /\ pc = "para_loop" /\ paragraphs = <<>>
    /\ Rejected(FinalChunks) = {}
    /\ chunks' = FinalChunks
    /\ current' = <<>>
    /\ IF FinalChunks = <<>>
       THEN /\ pc' = "failed"
            /\ error' = [kind |-> "ValueError: Nothing to synthesize",
                         chunk |-> 0, detail |-> ""]
            /\ td' = td
       ELSE /\ pc' = "synth"
            /\ error' = error
            /\ td' = IF Compressed THEN "open" ELSE td
    /\ UNCHANGED <<cfgvars, raw, paragraphs, sentences, sent_buf, words, wbuf,
                   i, calls, combined_pcm, part_files, td_files, concat_td,
                   ffmpeg_runs, wav>>

-----------------------------------------------------------------------------
(* main: synthesis and assembly *)

\* one call of client.synthesize_speech as the collaborator sees it
Call(chunk_text, ok, audio) ==
    [input |-> build_synthesis_input(chunk_text), ok |-> ok, audio |-> audio]

\* os.path.join(td, f"part_{i:04d}.{ext}")
PartPath(k) ==
    [dir |-> "td", part |-> k,
     ext |-> IF AUDIO_ENCODING = "MP3" THEN "mp3" ELSE "ogg"]

\* the concatenation as it would be with the operands swapped
AppendPcm_front(pcm, audio) == audio \o pcm

\* combined_pcm += synthesize_one(...)
AppendPcm(pcm, audio) == pcm \o audio

\* the list as it would be if the new path were inserted at the front
AppendPart_front(files, path) == <<path>> \o files

\* part_files.append(part_path)
AppendPart(files, path) == Append(files, path)

\* LINEAR16 loop body: the call returns a fragment
SynthLinear ==
    /\ pc = "synth" /\ ~Compressed /\ i < Len(chunks)
    /\ \E audio \in Fragment :
         /\ calls' = Append(calls, Call(chunks[i + 1], TRUE, audio))
         /\ combined_pcm' = AppendPcm(combined_pcm, audio)
    /\ i' = i + 1
    /\ UNCHANGED <<cfgvars, pc, raw, error, segvars, part_files, td, td_files,
                   concat_td, ffmpeg_runs, wav>>

\* MP3 / OGG_OPUS loop body: the call returns a fragment, which is written
\* to its part file
SynthCompressed ==
    /\ pc = "synth" /\ Compressed /\ i < Len(chunks)
    /\ \E audio \in Fragment :
         /\ calls' = Append(calls, Call(chunks[i + 1], TRUE, audio))
         /\ td_files' = Append(td_files, [path |-> PartPath(i + 1), data |-> audio])
    /\ part_files' = AppendPart(part_files, PartPath(i + 1))
    /\ i' = i + 1
    /\ UNCHANGED <<cfgvars, pc, raw, error, segvars, combined_pcm, td,
                   concat_td, ffmpeg_runs, wav>>

\* the loop as it would be if the exception were swallowed and the loop
\* went on with the next chunk
SynthFail_skip ==
    /\ pc = "synth" /\ i < Len(chunks)
    /\ calls' = Append(calls, Call(chunks[i + 1], FALSE, <<>>))
    /\ i' = i + 1
    /\ UNCHANGED <<cfgvars, pc, raw, error, segvars, combined_pcm, part_files,
                   td, td_files, concat_td, ffmpeg_runs, wav>>

\* either loop body: the call raises, and the exception leaves main
SynthFail ==
    /\ pc = "synth" /\ i < Len(chunks)
    /\ calls' = Append(calls, Call(chunks[i + 1], FALSE, <<>>))
    /\ error' = [kind |-> "synthesize_speech raised", chunk |-> i + 1, detail |-> ""]
    /\ pc' = "failed"
    /\ td' = IF td = "open" THEN ExitTempDir(td, TRUE) ELSE td
    /\ td_files' = IF td' = "removed" THEN <<>> ELSE td_files
    /\ UNCHANGED <<cfgvars, raw, segvars, i, combined_pcm, part_files,
                   concat_td, ffmpeg_runs, wav>>

\* MP3 / OGG_OPUS loop body: the call returns, writing the part file raises
StageFail ==
    /\ pc = "synth" /\ Compressed /\ i < Len(chunks)
    /\ \E audio \in Fragment :
         calls' = Append(calls, Call(chunks[i + 1], TRUE, audio))
    /\ error' = [kind |-> "OSError: part file", chunk |-> i + 1, detail |-> ""]
    /\ pc' = "failed"
    /\ td' = ExitTempDir(td, TRUE)
    /\ td_files' = IF td' = "removed" THEN <<>> ELSE td_files
    /\ UNCHANGED <<cfgvars, raw, segvars, i, combined_pcm, part_files,
                   concat_td, ffmpeg_runs, wav>>

\* the file as it would be with setnchannels(2)
WavFile_stereo(pcm_bytes, sample_rate_hz) ==
    [written |-> TRUE, nchannels |-> 2, sampwidth |-> 2,
     framerate |-> sample_rate_hz, data |-> pcm_bytes,
     nframes |-> Len(pcm_bytes) \div (2 * 2)]

\* wave: mono, 16-bit; the frames of the file are its data bytes divided by
\* the frame size
WavFile(pcm_bytes, sample_rate_hz) ==
    [written |-> TRUE, nchannels |-> 1, sampwidth |-> 2,
     framerate |-> sample_rate_hz, data |-> pcm_bytes,
     nframes |-> Len(pcm_bytes) \div (1 * 2)]

\* after the LINEAR16 loop: write_wav(OUTPUT_FILE, combined_pcm, SAMPLE_RATE_HZ)
WriteWav ==
    /\ pc = "synth" /\ ~Compressed /\ i = Len(chunks)
    /\ wav' = WavFile(combined_pcm, SAMPLE_RATE_HZ)
    /\ pc' = "done"
    /\ UNCHANGED <<cfgvars, raw, error, segvars, i, calls, combined_pcm,
                   part_files, td, td_files, concat_td, ffmpeg_runs>>

\* one run of ffmpeg on the concat list written from `files`
FfmpegRun(files, returncode, stderr) ==
    [manifest |-> files, returncode |-> returncode, stderr |-> stderr]

\* after the MP3 / OGG_OPUS loop: ffmpeg_concat_audio(part_files, ...)
\* and ffmpeg exits with 0
FfmpegOk ==
    /\ pc = "synth" /\ Compressed /\ i = Len(chunks)
    /\ ffmpeg_runs' = Append(ffmpeg_runs, FfmpegRun(part_files, 0, ""))
    /\ concat_td' = ExitTempDir("open", FALSE)
    /\ td' = ExitTempDir(td, FALSE)
    /\ td_files' = IF td' = "removed" THEN <<>> ELSE td_files
    /\ pc' = "done"
    /\ UNCHANGED <<cfgvars, raw, error, segvars, i, calls, combined_pcm,
                   part_files, wav>>

\* ... and ffmpeg exits with a non-zero code: RuntimeError with its stderr
FfmpegFail ==
    /\ pc = "synth" /\ Compressed /\ i = Len(chunks)
    /\ \E e \in Diagnostic :
         /\ ffmpeg_runs' = Append(ffmpeg_runs, FfmpegRun(part_files, 1, e))
         /\ error' = [kind |-> "RuntimeError: ffmpeg concat failed",
                      chunk |-> 0, detail |-> e]
    /\ concat_td' = ExitTempDir("open", TRUE)
    /\ td' = ExitTempDir(td, TRUE)
    /\ td_files' = IF td' = "removed" THEN <<>> ELSE td_files
    /\ pc' = "failed"
    /\ UNCHANGED <<cfgvars, raw, segvars, i, calls, combined_pcm, part_files, wav>>

-----------------------------------------------------------------------------

Next ==
    \/ MainEmptyInput \/ MainRawTooLarge \/ MainCallSplit
    \/ ParaAppend \/ ParaFlushKeep \/ ParaFlushSplit
    \/ SentAppend \/ SentFlushKeep \/ SentFlushSplit
    \/ WordAppend \/ WordFlush \/ WordLoopEnd \/ SentLoopEnd
    \/ SplitRaiseInternal \/ SplitReturn
    \/ SynthLinear \/ SynthCompressed \/ SynthFail \/ StageFail
    \/ WriteWav \/ FfmpegOk \/ FfmpegFail

Spec == Init /\ [][Next]_vars

\* main up to the return of split_text_sentence_aware, on the wide set of
\* documents
NextSplit ==
    \/ MainEmptyInput \/ MainRawTooLarge \/ MainCallSplit
    \/ ParaAppend \/ ParaFlushKeep \/ ParaFlushSplit
    \/ SentAppend \/ SentFlushKeep \/ SentFlushSplit
    \/ WordAppend \/ WordFlush \/ WordLoopEnd \/ SentLoopEnd
    \/ SplitRaiseInternal \/ SplitReturn

SplitSpec == InitSplit /\ [][NextSplit]_vars

-----------------------------------------------------------------------------
(* Vocabulary of the properties *)

AutoMarkup == USE_SSML /\ SSML_MODE = "auto"
RawMarkup == USE_SSML /\ SSML_MODE = "raw"

\* the budget in force and the estimated wire-size it is compared with
Budget == IF AutoMarkup THEN MAX_SSML_BYTES ELSE MAX_TEXT_BYTES
WireSize(c) == IF AutoMarkup THEN utf8_len(auto_text_to_ssml(c)) ELSE utf8_len(c)

\* the words of the normalized document, and of a chunk list read in order
DocumentWords == SplitWords(Strip(NormalizeNewlines(raw)), <<>>)

RECURSIVE ChunkWords(_)
ChunkWords(chs) ==
    IF chs = <<>> THEN <<>>
    ELSE SplitWords(Head(chs), <<>>) \o ChunkWords(Tail(chs))

InternalError == "RuntimeError: Internal error: chunk exceeds budget"

\* split_text_sentence_aware was called and has returned or raised
SplitEnded ==
    \/ pc \in {"synth", "done"}
    \/ /\ pc = "failed"
       /\ error.kind \notin {"ValueError: Input text is empty",
                             "ValueError: SSML over limit"}

\* the fragments returned so far, concatenated in call order
RECURSIVE ConcatAudio(_)
ConcatAudio(cs) ==
    IF cs = <<>> THEN <<>> ELSE Head(cs).audio \o ConcatAudio(Tail(cs))

\* the frames of the fragments returned so far, fragment by fragment
RECURSIVE SumFrames(_)
SumFrames(cs) ==
    IF cs = <<>> THEN 0 ELSE (Len(Head(cs).audio) \div 2) + SumFrames(Tail(cs))

FailedCalls == { k \in 1..Len(calls) : ~calls[k].ok }

PartPaths(n) == [k \in 1..n |-> PartPath(k)]

\* a step of split_text_sentence_aware closes a chunk
Closes == Len(chunks') = Len(chunks) + 1
ClosedChunk == chunks'[Len(chunks')]

\* the next unit in document order fits when appended to c
NextUnitFits(c) ==
    IF pc = "word_loop" /\ words # <<>>
    THEN fits(SpaceCandidate(c, Head(words)))
    ELSE IF pc \in {"word_loop", "sent_loop"} /\ sentences # <<>>
    THEN fits(SpaceCandidate(c, Head(sentences)))
    ELSE IF pc \in {"word_loop", "sent_loop", "para_loop"} /\ paragraphs # <<>>
    THEN fits(ParaCandidate(c, Head(paragraphs)))
    ELSE FALSE

\* the next unit of the loop in progress fits when appended to c
SameLevelNextFits(c) ==
    CASE pc = "word_loop" -> words # <<>> /\ fits(SpaceCandidate(c, Head(words)))
      [] pc = "sent_loop" ->
             sentences # <<>> /\ fits(SpaceCandidate(c, Head(sentences)))
      [] pc = "para_loop" ->
             paragraphs # <<>> /\ fits(ParaCandidate(c, Head(paragraphs)))
      [] OTHER -> FALSE

-----------------------------------------------------------------------------
(* Properties *)

\* C1: whenever split_text_sentence_aware returns, every chunk of the list
\* has an estimated wire-size within the budget in force, and no payload
\* over the budget reaches synthesize_speech.
C1_ChunksWithinBudget ==
    /\ pc \in {"synth", "done"} =>
           \A k \in 1..Len(chunks) : WireSize(chunks[k]) <= Budget
    /\ \A k \in 1..Len(calls) : utf8_len(calls[k].input.value) <= Budget

C1_Witness ==
    /\ pc = "synth" /\ AutoMarkup
    /\ Len(chunks) >= 2 /\ Len(calls) >= 1

\* C2: when split_text_sentence_aware returns, the words of the chunks read
\* in order are the words of the normalized document: none dropped,
\* duplicated or reordered.
C2_ChunksGapless ==
    pc = "synth" => ChunkWords(chunks) = DocumentWords

\* a flushed paragraph accumulator followed by the word-level chunks of a
\* one-sentence paragraph
C2_Witness ==
    /\ pc = "synth"
    /\ LET ps == SplitParagraphs(Strip(NormalizeNewlines(raw)))
       IN  /\ Len(ps) = 2
           /\ Len(chunks) = 3
           /\ chunks[1] = ps[1]
           /\ Len(SplitSentences(ps[2])) = 1

\* C3: when the document holds a word whose wire-size alone exceeds the
\* budget, split_text_sentence_aware never returns a chunk list, and the
\* error it raises is not the internal-consistency error of the
\* verification loop.
OversizeWord ==
    \E k \in 1..Len(DocumentWords) : WireSize(DocumentWords[k]) > Budget

C3_UnsplittableError ==
    (OversizeWord /\ SplitEnded) =>
        /\ pc = "failed"
        /\ error.kind # InternalError

\* the part of C3 the code meets: no chunk list is returned
C3_NeverReturns == OversizeWord => pc \notin {"synth", "done"}

\* C4: in raw markup mode a document that passes the 5000-byte check is
\* sent whole in exactly one synthesis call, whatever the budgets.
C4_RawUnsegmented ==
    RawMarkup =>
        /\ \A k \in 1..Len(calls) : calls[k].input = [field |-> "ssml", value |-> raw]
        /\ pc = "done" => Len(calls) = 1
        /\ error.kind # InternalError

\* C5: while nothing has failed, the k-th synthesis call is the call for
\* chunk k, one call per chunk, and the fragments are assembled in call
\* order: combined_pcm (and the WAV data) is their concatenation, the part
\* files are staged and listed in chunk order.
C5_OrderedOneToOne ==
    error = NoError =>
        /\ Len(calls) = i
        /\ \A k \in 1..Len(calls) :
               calls[k].ok /\ calls[k].input = build_synthesis_input(chunks[k])
        /\ pc = "done" => Len(calls) = Len(chunks)
        /\ ~Compressed =>
               /\ combined_pcm = ConcatAudio(calls)
               /\ wav.written => wav.data = ConcatAudio(calls)
        /\ (Compressed /\ pc = "synth") =>
               /\ part_files = PartPaths(i)
               /\ td_files = [k \in 1..i |->
                                 [path |-> PartPath(k), data |-> calls[k].audio]]
        /\ (Compressed /\ pc = "done") =>
               ffmpeg_runs[1].manifest = PartPaths(Len(chunks))

C5_Witness ==
    /\ pc = "done" /\ error = NoError
    /\ Len(calls) = 3
    /\ calls[1].audio # calls[2].audio

\* C6: once a synthesis call has failed, it is the last call ever made
\* (no retry, no call for a later chunk), the run has ended with that
\* failure, and nothing was written: no WAV file, no run of ffmpeg.
C6_FailureAborts ==
    FailedCalls # {} =>
        /\ FailedCalls = {Len(calls)}
        /\ \A k \in 1..Len(calls) : calls[k].input = build_synthesis_input(chunks[k])
        /\ pc = "failed"
        /\ error.kind = "synthesize_speech raised"
        /\ error.chunk = Len(calls)
        /\ wav = NoWav
        /\ ffmpeg_runs = <<>>
        /\ ~ENABLED Next

C6_Witness ==
    /\ pc = "failed" /\ FailedCalls # {}
    /\ Len(calls) >= 2
    /\ combined_pcm # <<>>

\* C7: ffmpeg runs at most once, only when every chunk has been
\* synthesized and staged, on the part files in chunk order; a compressed
\* run that ends well ran it once; a non-zero exit ends the run with the
\* ffmpeg error carrying its stderr.
C7_SingleOrderedMux ==
    /\ Len(ffmpeg_runs) <= 1
    /\ ~Compressed => ffmpeg_runs = <<>>
    /\ (Compressed /\ pc = "done") => Len(ffmpeg_runs) = 1
    /\ ffmpeg_runs # <<>> =>
           /\ i = Len(chunks) /\ Len(calls) = Len(chunks)
           /\ \A k \in 1..Len(calls) : calls[k].ok
           /\ ffmpeg_runs[1].manifest = PartPaths(Len(chunks))
           /\ ffmpeg_runs[1].returncode = 0 => (pc = "done" /\ error = NoError)
           /\ ffmpeg_runs[1].returncode # 0 =>
                  /\ pc = "failed"
                  /\ error.kind = "RuntimeError: ffmpeg concat failed"
                  /\ error.detail = ffmpeg_runs[1].stderr

C7_Witness ==
    /\ Len(ffmpeg_runs) = 1
    /\ Len(ffmpeg_runs[1].manifest) = 3
    /\ ffmpeg_runs[1].returncode # 0
    /\ pc = "failed"

\* C8: when a run has ended, on any path, neither temporary directory
\* exists any more and no staged file is left.
C8_TempDirsRemoved ==
    pc \in {"done", "failed"} =>
        /\ td # "open"
        /\ concat_td # "open"
        /\ td_files = <<>>

\* a run that staged fragments and then failed
C8_Witness ==
    /\ pc = "failed" /\ Compressed
    /\ td = "removed" /\ part_files # <<>>
    /\ error.kind \in {"synthesize_speech raised", "OSError: part file",
                       "RuntimeError: ffmpeg concat failed"}

\* C9 as stated: for fragments of any byte lengths, the WAV data is their
\* concatenation and its frame count is the sum of their frame counts.
C9_AnyLengths ==
    wav.written =>
        /\ wav.data = ConcatAudio(calls)
        /\ wav.nframes = SumFrames(calls)

WholeFrames == \A k \in 1..Len(calls) : Len(calls[k].audio) % 2 = 0

\* C9 amended: for fragments made of whole 2-byte frames, the WAV data is
\* their concatenation and its frame count is the sum of their frame
\* counts.
C9_WholeFrames ==
    (wav.written /\ WholeFrames) =>
        /\ wav.data = ConcatAudio(calls)
        /\ wav.nframes = SumFrames(calls)

C9_Witness ==
    /\ wav.written /\ WholeFrames
    /\ Len(calls) >= 2

\* C10 as stated: a chunk is closed only when the next unit in document
\* order would overflow it, or the document ends.
C10_NoEarlyClose ==
    [][Closes => ~NextUnitFits(ClosedChunk)]_vars

\* C10 amended: in each loop, a unit that fits when appended to the loop's
\* accumulator is appended to it and no chunk is closed; a chunk is closed
\* only when the next unit of the loop in progress would overflow it or
\* that loop has reached its end (of the sentence, the paragraph or the
\* document).
C10_GreedyPerLevel ==
    [][ /\ (pc = "word_loop" /\ words # <<>>
              /\ fits(SpaceCandidate(wbuf, Head(words)))) =>
               (wbuf' = SpaceCandidate(wbuf, Head(words)) /\ chunks' = chunks)
        /\ (pc = "sent_loop" /\ sentences # <<>>
              /\ fits(SpaceCandidate(sent_buf, Head(sentences)))) =>
               (sent_buf' = SpaceCandidate(sent_buf, Head(sentences))
                /\ chunks' = chunks)
        /\ (pc = "para_loop" /\ paragraphs # <<>>
              /\ fits(ParaCandidate(current, Head(paragraphs)))) =>
               (current' = ParaCandidate(current, Head(paragraphs))
                /\ chunks' = chunks)
        /\ Closes => ~SameLevelNextFits(ClosedChunk)
      ]_vars

\* the remainder of a word fallback has just been closed although the
\* following sentence fits when appended to it
C10_Witness ==
    /\ pc = "sent_loop" /\ sentences # <<>>
    /\ sent_buf = <<>> /\ wbuf # <<>>
    /\ chunks # <<>> /\ chunks[Len(chunks)] = wbuf
    /\ fits(SpaceCandidate(wbuf, Head(sentences)))

=============================================================================
